---------------------------- MODULE Spec2Model ----------------------------
(***************************************************************************)
(* A model of wacom-area (src/main.py): one run of main(), from the check  *)
(* for the xsetwacom binary to the final set_area call, together with the  *)
(* collaborator calls (xsetwacom --list / --get / --set) it performs.      *)
(*                                                                         *)
(* Python floats are modelled as exact rationals <<numerator, denominator>>*)
(* in lowest terms with a positive denominator, so products and quotients  *)
(* carry no rounding error (a float result can differ from them in the     *)
(* last place).  Over the magnitudes used here the comparisons, the exits  *)
(* and the rounded rectangle of the source agree with the exact ones.  The *)
(* builtin round() is modelled exactly (round half to even).               *)
(*                                                                         *)
(* --width, --height and --full are fixed in the initial state; the other  *)
(* arguments and the collaborator's answers are drawn by the block of main *)
(* that first reads them.  given, writes, calls and command are history:   *)
(* they record the command line and the collaborator calls of the run.     *)
(***************************************************************************)
EXTENDS Integers, Sequences, FiniteSets, TLC

VARIABLES
    pc,             \* position of main(): the block that runs next
    exit,           \* "running" | "ok" | "error" (sys.exit(msg)) | "crash" (uncaught exception)
    message,        \* the sys.exit message, or the exception type of a crash
    tool,           \* os.path.exists(xsetwacom): "unknown" | "present" | "missing"
    width,          \* args.width   (rational, or NoneR)
    height,         \* args.height  (rational, or NoneR)
    full,           \* args.full
    given,          \* how many of --width, --height, --full the command line gave
    device,         \* args.device  (device id, or NoneV)
    auto,           \* TRUE when --device was not given on the command line
    devices,        \* get_devices' result in find_first_tablet, kept until main
                    \* has checked args.device
    aspect,         \* args.aspect: <<w, h>> once validated, NoneR before
    device_area,    \* args.device_area: <<w, h>> once known, NoneR before
    dry_run,        \* args.dry_run
    unit,           \* args.unit
    align,          \* args.align
    tablet,         \* <<tablet_width, tablet_height>> (rationals) or NoneR
    offset,         \* <<offset_x, offset_y>> (rationals) or NoneR
    command,        \* the <<x1, y1, x2, y2>> set_area was called with, or NoneR
    writes,         \* xsetwacom --set calls executed so far, in order
    calls,          \* kinds of collaborator calls made so far: subset of {"list","get","set"}
    num,            \* argument of a stand-alone round2 evaluation
    rounded         \* its result, or NoneR

vars == <<pc, exit, message, tool, width, height, full, given, device, auto, devices,
          aspect, device_area, dry_run, unit, align, tablet, offset, command,
          writes, calls, num, rounded>>

NoneV == "None"     \* Python None where the value is otherwise a string
NoneR == <<>>       \* Python None where the value is otherwise a tuple

-----------------------------------------------------------------------------
(* Bounds of the model *)

MaxDevices    == 2      \* devices in a listing
MaxTabletStep == 2      \* tablet sides are 0, 100, .., 100 * MaxTabletStep lines
MaxHalfWidth  == 4      \* requested sizes are k/2 for k in -1..MaxHalfWidth
MaxHundredths == 300    \* stand-alone round2 arguments are k/100 for k in 0..MaxHundredths

-----------------------------------------------------------------------------
(* Rational arithmetic standing for Python float arithmetic *)

Abs(n) == IF n < 0 THEN -n ELSE n

RECURSIVE GCD(_, _)
GCD(a, b) == IF b = 0 THEN a ELSE GCD(b, a % b)

Rat(n, d) ==
    LET g == GCD(Abs(n), Abs(d))
        s == IF d < 0 THEN -1 ELSE 1
    IN  <<(s * n) \div g, (s * d) \div g>>

RInt(n)    == <<n, 1>>
RAdd(a, b) == Rat(a[1] * b[2] + b[1] * a[2], a[2] * b[2])
RSub(a, b) == Rat(a[1] * b[2] - b[1] * a[2], a[2] * b[2])
RMul(a, b) == Rat(a[1] * b[1], a[2] * b[2])
RDiv(a, b) == Rat(a[1] * b[2], a[2] * b[1])      \* b # 0; callers test for ZeroDivisionError
RLt(a, b)  == a[1] * b[2] < b[1] * a[2]
RLe(a, b)  == a[1] * b[2] <= b[1] * a[2]
RGt(a, b)  == RLt(b, a)
IsZero(a)  == a[1] = 0
Floor(a)   == a[1] \div a[2]

(* Python's builtin round(x) with one argument: nearest integer, ties to even *)
PyRound(a) ==
    LET f == Floor(a)
        r == 2 * (a[1] - f * a[2])      \* twice the fractional part, times a[2]
    IN  IF r < a[2] THEN f
        ELSE IF r > a[2] THEN f + 1
        ELSE IF f % 2 = 0 THEN f ELSE f + 1

(* round(num + 0.1) *)
round2(n) == PyRound(RAdd(n, Rat(1, 10)))


-----------------------------------------------------------------------------
(* Inputs: command-line values and collaborator responses *)

DefaultResolution == 2540
Resolutions       == {254, DefaultResolution}           \* --device-resolution
Units             == {"in", "cm", "mm", "lines"}         \* --unit choices
Alignments        == {"topleft", "top", "topright", "left", "center", "right",
                      "bottomleft", "bottom", "bottomright"}
TabletSides       == {100 * k : k \in 0..MaxTabletStep}   \* sides of a tablet area, in lines
RequestSizes      == {Rat(k, 2) : k \in -1..MaxHalfWidth} \* --width / --height values
Aspects           == {<<16, 9>>, <<4, 3>>, <<1, 1>>, <<1, 2>>, <<2, 1>>,
                      <<0, 1>>, <<1, 0>>}                \* --aspect values that pass int()
DeviceTypes       == {"STYLUS", "PAD", "TOUCH"}
GivenDevices      == {"tablet"}                          \* a --device value

(* One line of `xsetwacom --list devices`, with the answer device_has_area *)
(* gets for that device.                                                   *)
ListingLine(i, t, a) == [id |-> ToString(i), type |-> t, area |-> a]

Listings ==
    UNION {{[i \in 1..n |-> ListingLine(i, ty[i], ar[i])] :
                ty \in [1..n -> DeviceTypes], ar \in [1..n -> BOOLEAN]} :
           n \in 0..MaxDevices}

-----------------------------------------------------------------------------
(* Device discovery *)

PyNone    == [kind |-> "None",  items |-> <<>>]
NoDevices == [kind |-> "unset", items |-> <<>>]

get_devices(output) ==
    IF Len(output) < 1 THEN PyNone
    ELSE [kind |-> "dict", items |-> output]

device_has_area(items, i) == items[i].area

(* first device of the given type, in listing order, whose area is settable *)
FirstWithArea(items, t) ==
    LET hits == {i \in 1..Len(items) : items[i].type = t /\ device_has_area(items, i)}
    IN  IF hits = {} THEN NoneV
        ELSE items[CHOOSE i \in hits : \A j \in hits : i <= j].id

find_first_tablet(items) ==
    IF FirstWithArea(items, "STYLUS") # NoneV THEN FirstWithArea(items, "STYLUS")
    ELSE FirstWithArea(items, "PAD")

-----------------------------------------------------------------------------
(* Geometry *)

(* units per inch of --unit, as written in main *)
Divisor(u) ==
    CASE u = "in" -> RInt(1)
      [] u = "cm" -> Rat(254, 100)
      [] u = "mm" -> Rat(254, 10)

(* args.width /= divisor; args.width *= args.device_resolution *)
ToLines(v, u, res) ==
    IF u = "lines" THEN v ELSE RMul(RDiv(v, Divisor(u)), RInt(res))

Size(w, h) == [err |-> "", width |-> w, height |-> h]
Raise(e)   == [err |-> e, width |-> NoneR, height |-> NoneR]

FullSize_scaled_wrong(sw, sh, tw, th) ==
    IF IsZero(sh) \/ IsZero(th) THEN Raise("ZeroDivisionError")
    ELSE IF RGt(RDiv(sw, sh), RDiv(tw, th))
         THEN Size(tw, RMul(tw, RDiv(sw, sh)))
    ELSE IF RLt(RDiv(sw, sh), RDiv(tw, th))
         THEN Size(RMul(th, RDiv(sw, sh)), th)
    ELSE Size(tw, th)

(* the --full branch of "calculate size" *)
FullSize(sw, sh, tw, th) ==
    IF IsZero(sh) \/ IsZero(th) THEN Raise("ZeroDivisionError")
    ELSE IF RGt(RDiv(sw, sh), RDiv(tw, th))
         THEN IF IsZero(sw) THEN Raise("ZeroDivisionError")
              ELSE Size(tw, RMul(tw, RDiv(sh, sw)))
    ELSE IF RLt(RDiv(sw, sh), RDiv(tw, th))
         THEN Size(RMul(th, RDiv(sw, sh)), th)
    ELSE Size(tw, th)

(* the explicit branch of "calculate size": derive the missing side *)
ExplicitSize(w, h, sw, sh) ==
    IF w = NoneR
    THEN IF IsZero(sh) THEN Raise("ZeroDivisionError")
         ELSE Size(RMul(h, RDiv(sw, sh)), h)
    ELSE IF h = NoneR
    THEN IF IsZero(sw) THEN Raise("ZeroDivisionError")
         ELSE Size(w, RMul(w, RDiv(sh, sw)))
    ELSE Size(w, h)

Half(a) == RDiv(a, RInt(2))

OffsetX(al) ==
    CASE al \in {"top", "center", "bottom"}           -> "center"
      [] al \in {"topright", "right", "bottomright"}  -> "full"
      [] OTHER                                        -> "zero"

OffsetY(al) ==
    CASE al \in {"left", "center", "right"}                 -> "center"
      [] al \in {"bottomleft", "bottom", "bottomright"}     -> "full"
      [] OTHER                                              -> "zero"

AxisOffset_center_wrong(kind, side, size) ==
    CASE kind = "zero"   -> RInt(0)
      [] kind = "center" -> Half(side)
      [] kind = "full"   -> RSub(side, size)

(* x_center_offset / x_full_offset (and the y ones) *)
AxisOffset(kind, side, size) ==
    CASE kind = "zero"   -> RInt(0)
      [] kind = "center" -> RSub(Half(side), Half(size))
      [] kind = "full"   -> RSub(side, size)

(* "calculate offset (x1/y1)": <<offset_x, offset_y>> *)
Offsets(al, t, w, h) ==
    <<AxisOffset(OffsetX(al), t[1], w), AxisOffset(OffsetY(al), t[2], h)>>

X2 == RAdd(offset[1], width)
Y2 == RAdd(offset[2], height)

(* the rectangle main passes to set_area *)
Rectangle == <<round2(offset[1]), round2(offset[2]), round2(X2), round2(Y2)>>

DefaultArea == <<-1, -1, -1, -1>>

-----------------------------------------------------------------------------
(* The run of main() *)

MainIdle ==
    /\ exit = "running" /\ message = ""
    /\ tool = "unknown"
    /\ device = NoneV /\ auto = FALSE /\ devices = NoDevices
    /\ aspect = NoneR /\ device_area = NoneR /\ dry_run = FALSE
    /\ unit = "mm" /\ align = "center"
    /\ tablet = NoneR /\ offset = NoneR /\ command = NoneR
    /\ writes = <<>> /\ calls = {}

found_args_no_full(w, h, f) ==
    SelectSeq(<<"width", "height">>,
              LAMBDA a : \/ a = "width"  /\ w # NoneR
                         \/ a = "height" /\ h # NoneR)

(* the arguments of the incompatible group that were given, in group order *)
found_args(w, h, f) ==
    SelectSeq(<<"width", "height", "full">>,
              LAMBDA a : \/ a = "width"  /\ w # NoneR
                         \/ a = "height" /\ h # NoneR
                         \/ a = "full"   /\ f)

(* main() after parse_args(): --width, --height and --full are whatever the *)
(* command line gave; every other argument and every collaborator response *)
(* is drawn by the block of main that first reads it.                      *)
Init ==
    /\ pc = "check_tool"
    /\ MainIdle
    /\ width \in RequestSizes \cup {NoneR}
    /\ height \in RequestSizes \cup {NoneR}
    /\ full \in BOOLEAN
    /\ given = (IF width # NoneR THEN 1 ELSE 0) + (IF height # NoneR THEN 1 ELSE 0)
               + (IF full THEN 1 ELSE 0)
    /\ num = RInt(0) /\ rounded = NoneR

(* sys.exit(msg), or an exception nobody catches *)
Stop(kind, msg) == exit' = kind /\ message' = msg /\ pc' = "done"
Goto(label)     == pc' = label /\ UNCHANGED <<exit, message>>

(* "check if xsetwacom exists" *)
CheckTool ==
    /\ pc = "check_tool"
    /\ \E present \in BOOLEAN :
        /\ tool' = IF present THEN "present" ELSE "missing"
        /\ IF present THEN Goto("verify_args")
           ELSE Stop("error", "/usr/bin/xsetwacom not found")
    /\ UNCHANGED <<given, width, height, full, device, auto, devices, aspect,
                   device_area, dry_run, unit, align, tablet, offset, command,
                   writes, calls, num, rounded>>

(* "verify arguments" *)
VerifyArgs ==
    /\ pc = "verify_args"
    /\ IF Len(found_args(width, height, full)) > 1
       THEN Stop("error", "the following arguments may not be used together")
       ELSE IF Len(found_args(width, height, full)) = 0
       THEN Stop("error", "exactly one of the following arguments must be specified")
       ELSE Goto("find_device")
    /\ UNCHANGED <<given, tool, width, height, full, device, auto, devices, aspect,
                   device_area, dry_run, unit, align, tablet, offset, command,
                   writes, calls, num, rounded>>

(* "check or set tablet device id", first statement: args.device, or *)
(* find_first_tablet() when --device was not given                   *)
FindDevice ==
    /\ pc = "find_device"
    /\ \/ \E d \in GivenDevices :
            /\ device' = d /\ auto' = FALSE
            /\ Goto("check_device")
            /\ UNCHANGED <<devices, calls>>
       \/ \E output \in Listings :
            /\ auto' = TRUE
            /\ devices' = get_devices(output)
            /\ IF devices'.kind = "None"
               THEN /\ Stop("crash", "TypeError")     \* for device in None
                    /\ calls' = calls \cup {"list"}
                    /\ UNCHANGED device
               ELSE /\ device' = find_first_tablet(devices'.items)
                    /\ calls' = calls \cup {"list"} \cup
                          IF \E i \in 1..Len(output) : output[i].type \in {"STYLUS", "PAD"}
                          THEN {"get"} ELSE {}
                    /\ Goto("check_device")
    /\ UNCHANGED <<given, tool, width, height, full, aspect, device_area,
                   dry_run, unit, align, tablet, offset, command, writes,
                   num, rounded>>

(* "check or set tablet device id", the two checks on args.device *)
CheckDevice ==
    /\ pc = "check_device"
    /\ IF device = NoneV
       THEN /\ Stop("error", "could not find tablet")
            /\ UNCHANGED <<devices, calls>>
       ELSE \E has_area \in BOOLEAN :
            /\ auto => has_area       \* find_first_tablet just got this answer
            /\ calls' = calls \cup {"get"}
            /\ IF has_area
               THEN Goto("validate_aspect") /\ devices' = NoDevices
               ELSE Stop("error", "invalid tablet device id") /\ UNCHANGED devices
    /\ UNCHANGED <<given, tool, width, height, full, device, auto, aspect, device_area,
                   dry_run, unit, align, tablet, offset, command, writes,
                   num, rounded>>

(* "validate aspect ratio" *)
ValidateAspect ==
    /\ pc = "validate_aspect"
    /\ \/ /\ Stop("error", "invalid screen aspect ratio")    \* not int:int
          /\ UNCHANGED aspect
       \/ \E a \in Aspects :
          /\ aspect' = a
          /\ Goto("tablet_area")
    /\ UNCHANGED <<given, tool, width, height, full, device, auto, devices, device_area,
                   dry_run, unit, align, tablet, offset, command, writes, calls,
                   num, rounded>>

(* --device-area values that pass the int() validation: WxH, or a lone W *)
OverrideAreas == (TabletSides \X TabletSides) \cup {<<100 * MaxTabletStep>>}

(* the xsetwacom --set calls done once get_tablet_max_area has reset the area *)
reset_writes(dev, dry, ws) ==
    IF ~dry THEN Append(ws, <<dev, DefaultArea>>) ELSE ws

set_area_writes_always(dev, rect, dry, ws) == Append(ws, <<dev, rect>>)

(* the xsetwacom --set calls done once set_area has run *)
set_area_writes(dev, rect, dry, ws) ==
    IF ~dry THEN Append(ws, <<dev, rect>>) ELSE ws

(* "check or set tablet area" *)
TabletArea ==
    /\ pc = "tablet_area"
    /\ \E dry \in BOOLEAN :
        /\ dry_run' = dry
        /\ \/ /\ Stop("error", "invalid device area")      \* --device-area not ints
              /\ UNCHANGED <<device_area, writes, calls>>
           \/ \E a \in OverrideAreas :                     \* --device-area accepted
              /\ device_area' = a
              /\ Goto("convert_units")
              /\ UNCHANGED <<writes, calls>>
           \/ \E x2 \in TabletSides, y2 \in TabletSides :  \* get_tablet_max_area
              /\ writes' = reset_writes(device, dry, writes)
              /\ calls' = calls \cup {"get"} \cup (IF ~dry THEN {"set"} ELSE {})
              /\ device_area' = <<x2, y2>>
              /\ Goto("convert_units")
    /\ UNCHANGED <<given, tool, width, height, full, device, auto, devices, aspect,
                   unit, align, tablet, offset, command, num, rounded>>

(* "convert area into lines, if necessary" *)
ConvertUnits ==
    /\ pc = "convert_units"
    /\ \E u \in Units, res \in Resolutions :
        IF ~full /\ u # "lines"
        THEN IF width # NoneR
             THEN width' = ToLines(width, u, res) /\ UNCHANGED height
             ELSE height' = ToLines(height, u, res) /\ UNCHANGED width
        ELSE UNCHANGED <<width, height>>
    /\ unit' = "lines"
    /\ Goto("calculate_size")
    /\ UNCHANGED <<given, tool, full, device, auto, devices, aspect, device_area,
                   dry_run, align, tablet, offset, command, writes, calls,
                   num, rounded>>

(* "calculate size" *)
CalculateSize ==
    /\ pc = "calculate_size"
    /\ IF Len(device_area) # 2
       THEN /\ Stop("crash", "ValueError")              \* convert_size cannot unpack
            /\ UNCHANGED <<tablet, width, height>>
       ELSE LET sw == RInt(aspect[1])
                sh == RInt(aspect[2])
                tw == RInt(device_area[1])
                th == RInt(device_area[2])
                r  == IF full THEN FullSize(sw, sh, tw, th)
                      ELSE ExplicitSize(width, height, sw, sh)
            IN  /\ tablet' = <<tw, th>>
                /\ IF r.err # ""
                   THEN Stop("crash", r.err) /\ UNCHANGED <<width, height>>
                   ELSE /\ width' = r.width /\ height' = r.height
                        /\ Goto("calculate_offset")
    /\ UNCHANGED <<given, tool, full, device, auto, devices, aspect, device_area,
                   dry_run, unit, align, offset, command, writes, calls,
                   num, rounded>>

(* "calculate offset (x1/y1), if necessary" *)
CalculateOffset ==
    /\ pc = "calculate_offset"
    /\ \E al \in Alignments :
        /\ align' = al
        /\ offset' = Offsets(al, tablet, width, height)
    /\ Goto("set_area")
    /\ UNCHANGED <<given, tool, width, height, full, device, auto, devices, aspect,
                   device_area, dry_run, unit, tablet, command, writes, calls,
                   num, rounded>>

(* "calculate x2/y2" and "set area" *)
SetArea ==
    /\ pc = "set_area"
    /\ IF round2(X2) > round2(tablet[1])
       THEN /\ Stop("error", "area width is greater than tablet size!")
            /\ UNCHANGED <<command, writes, calls>>
       ELSE IF round2(Y2) > round2(tablet[2])
       THEN /\ Stop("error", "area height is greater than tablet size!")
            /\ UNCHANGED <<command, writes, calls>>
       ELSE /\ command' = Rectangle
            /\ writes' = set_area_writes(device, Rectangle, dry_run, writes)
            /\ calls' = calls \cup (IF ~dry_run THEN {"set"} ELSE {})
            /\ Stop("ok", "")
    /\ UNCHANGED <<given, tool, width, height, full, device, auto, devices, aspect,
                   device_area, dry_run, unit, align, tablet, offset,
                   num, rounded>>

Next ==
    \/ CheckTool
    \/ VerifyArgs
    \/ FindDevice
    \/ CheckDevice
    \/ ValidateAspect
    \/ TabletArea
    \/ ConvertUnits
    \/ CalculateSize
    \/ CalculateOffset
    \/ SetArea

Spec == Init /\ [][Next]_vars

-----------------------------------------------------------------------------
(* round2 on its own: the argument is drawn, then the function is applied *)

InitRound ==
    /\ pc = "round2"
    /\ MainIdle
    /\ width = NoneR /\ height = NoneR /\ full = FALSE /\ given = 0
    /\ num \in {Rat(k, 100) : k \in 0..MaxHundredths}
    /\ rounded = NoneR

Round2 ==
    /\ pc = "round2"
    /\ rounded' = <<round2(num)>>
    /\ pc' = "rounded"
    /\ UNCHANGED <<exit, message, given, tool, width, height, full, device, auto, devices,
                   aspect, device_area, dry_run, unit, align, tablet, offset,
                   command, writes, calls, num>>

NextRound == Round2

SpecRound == InitRound /\ [][NextRound]_vars

-----------------------------------------------------------------------------
(* Properties *)

Failed      == exit \in {"error", "crash"}
Finished    == pc = "done"
GeometryMsg == {"area width is greater than tablet size!",
                "area height is greater than tablet size!"}
ConfigMsg   == {"the following arguments may not be used together",
                "exactly one of the following arguments must be specified"}
ValidArea   == Len(device_area) = 2 /\ device_area[1] > 0 /\ device_area[2] > 0
ValidAspect == aspect # NoneR /\ aspect[1] > 0 /\ aspect[2] > 0

(* C1: the device is written at most once in a run, and a run that ends in *)
(* an error has written nothing to the device (neither the default reset   *)
(* nor the final area).  Stated for runs on a tablet with positive sides   *)
(* and an aspect with positive components.                                 *)
C1_NoWriteUnlessValidated ==
    (ValidAspect /\ ValidArea)
        => /\ Len(writes) <= 1
           /\ (Finished /\ Failed) => writes = <<>>

(* C2: an explicit request whose resolved width exceeds the tablet width,  *)
(* or whose resolved height exceeds the tablet height, ends in a geometry  *)
(* error, and set_area is not called, whatever the alignment.              *)
C2_OversizeRejected ==
    (/\ Finished /\ ~full /\ offset # NoneR
     /\ ValidAspect /\ ValidArea
     /\ RGt(width, tablet[1]) \/ RGt(height, tablet[2]))
        => (exit = "error" /\ message \in GeometryMsg /\ command = NoneR)

(* C3: every rectangle handed to set_area has non-negative x1, y1, x2, y2, *)
(* with x2 <= quantize(tablet width) and y2 <= quantize(tablet height).    *)
C3_RectangleWithinTablet ==
    (command # NoneR /\ ValidAspect /\ ValidArea) =>
        /\ \A i \in 1..4 : command[i] >= 0
        /\ command[3] <= round2(tablet[1])
        /\ command[4] <= round2(tablet[2])

(* C4: in full mode, on a tablet with positive sides and an aspect with    *)
(* positive components, the resolved size keeps the aspect ratio           *)
(* (width * vertical = height * horizontal); the width is the tablet's     *)
(* when the screen is wider than the tablet, the height is the tablet's    *)
(* when it is narrower, and both are when the ratios are equal.            *)
C4_FullKeepsAspect ==
    (full /\ width # NoneR /\ ValidAspect /\ ValidArea)
        => LET sw == aspect[1]
               sh == aspect[2]
               tw == device_area[1]
               th == device_area[2]
           IN  /\ RMul(width, RInt(sh)) = RMul(height, RInt(sw))
               /\ width = RInt(tw) \/ height = RInt(th)
               /\ sw * th > tw * sh => width = RInt(tw)
               /\ sw * th < tw * sh => height = RInt(th)
               /\ sw * th = tw * sh => width = RInt(tw) /\ height = RInt(th)

(* a full-mode run on a tablet squarer than the screen: the height shrinks *)
C4_Witness ==
    /\ full /\ width # NoneR
    /\ aspect = <<16, 9>> /\ device_area = <<200, 200>>
    /\ width = RInt(200) /\ height = Rat(225, 2)

(* C5: before quantization, offsetX + width <= tablet width and            *)
(* offsetY + height <= tablet height, for every alignment, whenever the    *)
(* size fits the tablet on both axes.                                      *)
C5_AlignedInsideTablet ==
    (/\ offset # NoneR
     /\ RLe(width, tablet[1]) /\ RLe(height, tablet[2]))
        => /\ RLe(RAdd(offset[1], width), tablet[1])
           /\ RLe(RAdd(offset[2], height), tablet[2])

(* a centred area strictly smaller than the tablet, with both offsets > 0  *)
C5_Witness ==
    /\ offset # NoneR /\ align = "center"
    /\ RLt(width, tablet[1]) /\ RLt(height, tablet[2])
    /\ RGt(offset[1], RInt(0)) /\ RGt(offset[2], RInt(0))
    /\ RGt(width, Half(tablet[1]))

(* C6: round2(x) is the nearest integer with half-integer ties upward,     *)
(* that is floor(x + 0.5), for every non-negative x (multiples of 1/100).  *)
C6_Round2IsHalfUp ==
    rounded # NoneR => rounded[1] = Floor(RAdd(num, Rat(1, 2)))

(* C7 as stated: a run with none, or more than one, of --width, --height,  *)
(* --full ends with a configuration error, and no collaborator call is     *)
(* made in it.                                                             *)
C7_ConfigErrorBeforeIO ==
    (Finished /\ given # 1)
        => (exit = "error" /\ message \in ConfigMsg /\ calls = {} /\ writes = <<>>)

(* C7 amended: such a run ends with an error exit and no collaborator      *)
(* call; the error is the configuration error whenever xsetwacom exists    *)
(* (when it does not, "not found" is reported first).                      *)
C7_ErrorBeforeIO ==
    (Finished /\ given # 1)
        => /\ exit = "error" /\ calls = {} /\ writes = <<>>
           /\ tool = "present" => message \in ConfigMsg

(* --width together with --full, xsetwacom present *)
C7_Witness ==
    /\ Finished /\ width # NoneR /\ full /\ tool = "present"
    /\ message = "the following arguments may not be used together"
    /\ calls = {}

(* C8: in dry-run mode no xsetwacom --set call is executed: neither the    *)
(* default reset nor the final area.                                       *)
C8_DryRunNeverWrites ==
    dry_run => (writes = <<>> /\ "set" \notin calls)

(* a dry run whose geometry ran to the set_area call *)
C8_Witness ==
    /\ dry_run /\ Finished /\ exit = "ok"
    /\ command # NoneR /\ writes = <<>>

(* C9: with a tablet area of width 0 or height 0 the run ends in a         *)
(* reported error (no crash) and set_area is not called.                   *)
C9_ZeroAreaReported ==
    (/\ Finished /\ ValidAspect /\ tablet # NoneR
     /\ device_area[1] = 0 \/ device_area[2] = 0)
        => (exit = "error" /\ command = NoneR)

(* the device the listing should yield: the first STYLUS with a settable *)
(* area, else the first PAD with one, else none                          *)
Preferred(items) ==
    LET of(t) == {i \in 1..Len(items) : items[i].type = t /\ items[i].area}
        min(S) == CHOOSE i \in S : \A j \in S : i <= j
    IN  IF of("STYLUS") # {} THEN items[min(of("STYLUS"))].id
        ELSE IF of("PAD") # {} THEN items[min(of("PAD"))].id
        ELSE NoneV

(* C10: without --device, for every listing (the empty one included) the   *)
(* selected device is the first STYLUS with a settable area, else the      *)
(* first PAD with one; with neither, the run ends with "could not find     *)
(* tablet" and nothing is written.                                         *)
C10_FirstTabletSelected ==
    (auto /\ devices # NoDevices)
        => /\ pc = "check_device" => device = Preferred(devices.items)
           /\ (Finished /\ Preferred(devices.items) = NoneV)
                => /\ exit = "error" /\ message = "could not find tablet"
                   /\ writes = <<>>

=============================================================================
